---- MODULE Spec2Model ----
(***************************************************************************)
(* Model of fuels_sender (src/src/main.rs): the driver loop of main, the   *)
(* node benchmark routine benchmark_node and the dormant contract routine  *)
(* benchmark_contract.  The RPC provider, the wallet derivation and the    *)
(* contract proxy are external collaborators: every call to them returns   *)
(* a nondeterministically chosen result after a nondeterministic delay.    *)
(* An action runs a routine from one suspension point (.await) to the      *)
(* next one.                                                               *)
(***************************************************************************)
EXTENDS Integers, Sequences, FiniteSets, TLC

VARIABLES
    environ,        \* MNEMONIC in the process environment
    mainPc,         \* position of main
    i,              \* index of the for loop over provider_urls
    exit,           \* how the process ended: "running", "ok", "panic"
    mnemonic,       \* main's local / benchmark_contract's argument
    contract_id,    \* main's local / benchmark_contract's argument
    nodePc,         \* position of the running benchmark routine
    url,            \* argument of the running benchmark routine
    start_time,     \* Instant::now() taken at routine entry
    lbh,            \* local of benchmark_node
    gas_price,      \* local of benchmark_node
    transactions,   \* local of benchmark_node: the returned page
    ret,            \* value returned by the benchmark routine
    clock,          \* monotonic wall clock
    calls,          \* calls received by the external collaborators
    injected,       \* total delay injected by the provider in the steps of the invocation
    log             \* lines written through info!

vars == <<environ, mainPc, i, exit, mnemonic, contract_id, nodePc, url,
          start_time, lbh, gas_price, transactions, ret, clock, calls, injected, log>>

----------------------------------------------------------------------------
(* Bounds of the model *)

MaxDelay == 1
MaxPage == 1

Delays == 0 .. MaxDelay

(* Values of the external world *)
Msgs == {"timeout", "connection refused"}
Heights == {12345, 12346}
GasPrices == {1, 2}
Statuses == {"Success", "Failure"}
EnvStates == {"NotPresent", "NotUnicode", "Valid"}
DotenvFiles == {"missing", "defines MNEMONIC"}
Phrase == "test test test test test test test test test test test junk"

----------------------------------------------------------------------------
(* Option and Result *)

None == [some |-> FALSE]
Some(v) == [some |-> TRUE, v |-> v]
Ok(v) == [ok |-> TRUE, v |-> v]
Err(e) == [ok |-> FALSE, e |-> e]

(* BenchmarkError, main.rs:13-32 *)
ProviderConnectionError(m) == [variant |-> "ProviderConnectionError", msg |-> m]
GasPriceFetchError(m) == [variant |-> "GasPriceFetchError", msg |-> m]
BlockHeightFetchError(m) == [variant |-> "BlockHeightFetchError", msg |-> m]
TransactionFetchError(m) == [variant |-> "TransactionFetchError", msg |-> m]
WalletCreationError(m) == [variant |-> "WalletCreationError", msg |-> m]
ContractInteractionError(m) == [variant |-> "ContractInteractionError", msg |-> m]

(* #[error("...: {0}")]: the Display text of a BenchmarkError *)
Display(e) ==
    LET prefix == CASE e.variant = "ProviderConnectionError" -> "Failed to connect to provider: "
                    [] e.variant = "GasPriceFetchError" -> "Failed to fetch latest gas price: "
                    [] e.variant = "BlockHeightFetchError" -> "Failed to fetch latest block height: "
                    [] e.variant = "TransactionFetchError" -> "Failed to fetch latest transaction: "
                    [] e.variant = "WalletCreationError" -> "Failed to create wallet: "
                    [] e.variant = "ContractInteractionError" -> "Failed to interact with contract: "
    IN <<prefix, e.msg>>

(* an error of an external library, and e.to_string() *)
LibErrors == [msg : Msgs]
to_string(e) == e.msg

(* vec!["mainnet.fuel.network", "fuel.liquify.com/v1/graphql"] *)
provider_urls == <<"mainnet.fuel.network", "fuel.liquify.com/v1/graphql">>

(* PaginationRequest { cursor: None, results: 10, direction: Backward } *)
PageResults == 10
\* faulty variant: pages forward
p_r_forward == [cursor |-> None, results |-> PageResults, direction |-> "Forward"]
p_r == [cursor |-> None, results |-> PageResults, direction |-> "Backward"]

NoArgs == [none |-> TRUE]

(* a line of the log *)
Line(text, arg) == [text |-> text, arg |-> arg]

(* a call received by a collaborator; res is filled in when it returns *)
Call(u, op, args) == [url |-> u, op |-> op, args |-> args, res |-> "pending", err |-> None]
Answered(cs, r) ==
    [cs EXCEPT ![Len(cs)].res = IF r.ok THEN "ok" ELSE "err",
               ![Len(cs)].err = IF r.ok THEN None ELSE Some(r.e)]

(* pages a provider can return: at most MaxPage (<= results) transactions *)
Pages == UNION {[1 .. n -> [status : Statuses]] : n \in 0 .. MaxPage}

----------------------------------------------------------------------------
(* Pure pieces of the code *)

(* dotenv(): a variable of .env is set only when the environment lacks it *)
dotenv(env, file) ==
    IF env = "NotPresent" /\ file = "defines MNEMONIC" THEN "Valid" ELSE env

(* std::env::var("MNEMONIC") *)
\* faulty variant: a default phrase replaces a missing value
env_var_lenient(env) == Ok(Phrase)
env_var(env) ==
    IF env = "Valid" THEN Ok(Phrase) ELSE Err([msg |-> env])

(* the ? operator: Err returns from the routine, Ok yields the value *)
\* faulty variant: the error is swallowed and the routine goes on
Try_swallow(r) == FALSE
Try(r) == ~r.ok

(* the closures given to map_err *)
\* faulty variant: every closure builds ProviderConnectionError
map_err_wrong(r, variant) ==
    IF r.ok THEN r ELSE Err([variant |-> "ProviderConnectionError", msg |-> to_string(r.e)])
map_err(r, variant) ==
    IF r.ok THEN r ELSE Err([variant |-> variant, msg |-> to_string(r.e)])

(* Instant::elapsed *)
\* faulty variant: the timer is restarted just before it is read
elapsed_restarted(start, now) == 0
elapsed(start, now) == now - start

(* main.rs:111-117: the branch on transactions.results.first() and the result *)
\* faulty variant: an empty page is an error
after_transactions_strict(page, d) ==
    IF Len(page) > 0
    THEN [line |-> Line("Latest transaction: ", page[1].status), result |-> Ok(d)]
    ELSE [line |-> Line("No transactions found in the latest block.", ""),
          result |-> Err(TransactionFetchError("no transactions"))]
after_transactions(page, d) ==
    [line |-> IF Len(page) > 0
              THEN Line("Latest transaction: ", page[1].status)
              ELSE Line("No transactions found in the latest block.", ""),
     result |-> Ok(d)]

(* main.rs:57-60: the two arms of the match on benchmark_node's result *)
\* faulty variant: the Err arm logs nothing
match_lines_silent(r) ==
    IF r.ok THEN <<Line("Node Request: Response Time: ", r.v)>> ELSE <<>>
match_lines(r) ==
    IF r.ok THEN <<Line("Node Request: Response Time: ", r.v)>>
            ELSE <<Line("Node Request: Error: ", Display(r.e))>>

(* both arms of the match fall through to the end of the loop body *)
\* faulty variant: the Err arm returns the error from main
loop_continues_on_ok(r) == r.ok
loop_continues(r) == TRUE

----------------------------------------------------------------------------
(* main *)

NoLocals ==
    /\ lbh' = None
    /\ gas_price' = None
    /\ transactions' = None

(* main.rs:36-43: dotenv().ok(); env_logger::init(); provider_urls *)
Startup ==
    /\ mainPc = "start"
    /\ \E file \in DotenvFiles : environ' = dotenv(environ, file)
    /\ mainPc' = "env"
    /\ UNCHANGED <<i, exit, mnemonic, contract_id, nodePc, url, start_time, lbh,
                   gas_price, transactions, ret, clock, calls, injected, log>>

(* main.rs:46-51: env::var("MNEMONIC").expect(..); contract_id; info! *)
ReadMnemonic ==
    /\ mainPc = "env"
    /\ LET r == env_var(environ) IN
       IF r.ok
       THEN /\ mnemonic' = r.v
            /\ contract_id' = "contract_id"
            /\ log' = Append(log, Line("Starting benchmarks...", ""))
            /\ i' = 1
            /\ mainPc' = "loop"
            /\ exit' = exit
       ELSE /\ exit' = "panic"
            /\ mainPc' = "exited"
            /\ UNCHANGED <<mnemonic, contract_id, log, i>>
    /\ UNCHANGED <<environ, nodePc, url, start_time, lbh, gas_price, transactions,
                   ret, clock, calls, injected>>

(* main.rs:53-57 and 74-80: the loop body up to the first await of benchmark_node *)
CallBenchmarkNode ==
    /\ mainPc = "loop"
    /\ i <= Len(provider_urls)
    /\ mainPc' = "await"
    /\ url' = provider_urls[i]
    /\ start_time' = Some(clock)
    /\ log' = log \o <<Line("\nBenchmarking provider: ", provider_urls[i]),
                       Line("Connecting to node ", provider_urls[i])>>
    /\ calls' = Append(calls, Call(provider_urls[i], "connect", [url |-> provider_urls[i]]))
    /\ nodePc' = "connect"
    /\ injected' = 0
    /\ ret' = None
    /\ UNCHANGED <<environ, i, exit, mnemonic, contract_id, lbh, gas_price,
                   transactions, clock>>

(* main.rs:57-68: the match on the result, and the end of the loop body *)
MatchOutcome ==
    /\ mainPc = "await"
    /\ nodePc = "returned"
    /\ log' = log \o match_lines(ret.v)
    /\ IF loop_continues(ret.v)
       THEN /\ i' = i + 1
            /\ mainPc' = "loop"
            /\ exit' = exit
       ELSE /\ exit' = "err"
            /\ mainPc' = "exited"
            /\ i' = i
    /\ nodePc' = "idle"
    /\ url' = ""
    /\ start_time' = None
    /\ ret' = None
    /\ injected' = 0
    /\ NoLocals
    /\ UNCHANGED <<environ, mnemonic, contract_id, clock, calls>>

(* main.rs:70: Ok(()) *)
MainReturn ==
    /\ mainPc = "loop"
    /\ i > Len(provider_urls)
    /\ exit' = "ok"
    /\ mainPc' = "exited"
    /\ UNCHANGED <<environ, i, mnemonic, contract_id, nodePc, url, start_time, lbh,
                   gas_price, transactions, ret, clock, calls, injected, log>>

----------------------------------------------------------------------------
(* benchmark_node *)

(* main.rs:79-87: Provider::connect(url) returns *)
ConnectReturns ==
    /\ mainPc = "await"
    /\ nodePc = "connect"
    /\ \E d \in Delays, r0 \in {Ok("provider")} \cup {Err(e) : e \in LibErrors} :
         LET r == map_err(r0, "ProviderConnectionError") IN
         /\ clock' = clock + d
         /\ injected' = injected + d
         /\ IF Try(r)
            THEN /\ ret' = Some(r)
                 /\ nodePc' = "returned"
                 /\ calls' = Answered(calls, r0)
                 /\ log' = log
            ELSE /\ log' = log \o <<Line("Connected", ""),
                                    Line("Trying to get last block height...", "")>>
                 /\ calls' = Append(Answered(calls, r0), Call(url, "latest_block_height", NoArgs))
                 /\ nodePc' = "latest_block_height"
                 /\ ret' = ret
    /\ UNCHANGED <<environ, mainPc, i, exit, mnemonic, contract_id, url, start_time,
                   lbh, gas_price, transactions>>

(* main.rs:86-95: provider.latest_block_height() returns *)
BlockHeightReturns ==
    /\ mainPc = "await"
    /\ nodePc = "latest_block_height"
    /\ \E d \in Delays, r0 \in {Ok(h) : h \in Heights} \cup {Err(e) : e \in LibErrors} :
         LET r == map_err(r0, "BlockHeightFetchError") IN
         /\ clock' = clock + d
         /\ injected' = injected + d
         /\ IF Try(r)
            THEN /\ ret' = Some(r)
                 /\ nodePc' = "returned"
                 /\ calls' = Answered(calls, r0)
                 /\ UNCHANGED <<log, lbh>>
            ELSE /\ lbh' = IF r.ok THEN Some(r.v) ELSE None
                 /\ log' = log \o <<Line("Block height: ", IF r.ok THEN r.v ELSE 0),
                                    Line("Trying to get latest gas price...", "")>>
                 /\ calls' = Append(Answered(calls, r0), Call(url, "latest_gas_price", NoArgs))
                 /\ nodePc' = "latest_gas_price"
                 /\ ret' = ret
    /\ UNCHANGED <<environ, mainPc, i, exit, mnemonic, contract_id, url, start_time,
                   gas_price, transactions>>

(* main.rs:94-107: provider.latest_gas_price() returns *)
GasPriceReturns ==
    /\ mainPc = "await"
    /\ nodePc = "latest_gas_price"
    /\ \E d \in Delays, r0 \in {Ok(g) : g \in GasPrices} \cup {Err(e) : e \in LibErrors} :
         LET r == map_err(r0, "GasPriceFetchError") IN
         /\ clock' = clock + d
         /\ injected' = injected + d
         /\ IF Try(r)
            THEN /\ ret' = Some(r)
                 /\ nodePc' = "returned"
                 /\ calls' = Answered(calls, r0)
                 /\ UNCHANGED <<log, gas_price>>
            ELSE /\ gas_price' = IF r.ok THEN Some(r.v) ELSE None
                 /\ log' = log \o <<Line("Latest gas price: ", IF r.ok THEN r.v ELSE 0),
                                    Line("Trying to fetch the latest transaction...", "")>>
                 /\ calls' = Append(Answered(calls, r0), Call(url, "get_transactions", p_r))
                 /\ nodePc' = "get_transactions"
                 /\ ret' = ret
    /\ UNCHANGED <<environ, mainPc, i, exit, mnemonic, contract_id, url, start_time,
                   lbh, transactions>>

(* main.rs:107-117: provider.get_transactions(p_r) returns *)
TransactionsReturn ==
    /\ mainPc = "await"
    /\ nodePc = "get_transactions"
    /\ \E d \in Delays, r0 \in {Ok(p) : p \in Pages} \cup {Err(e) : e \in LibErrors} :
         LET r == map_err(r0, "TransactionFetchError") IN
         /\ clock' = clock + d
         /\ injected' = injected + d
         /\ calls' = Answered(calls, r0)
         /\ nodePc' = "returned"
         /\ IF Try(r)
            THEN /\ ret' = Some(r)
                 /\ UNCHANGED <<log, transactions>>
            ELSE LET page == IF r.ok THEN r.v ELSE <<>>
                     out == after_transactions(page, elapsed(start_time.v, clock + d))
                 IN /\ transactions' = Some(page)
                    /\ log' = Append(log, out.line)
                    /\ ret' = Some(out.result)
    /\ UNCHANGED <<environ, mainPc, i, exit, mnemonic, contract_id, url, start_time,
                   lbh, gas_price>>

----------------------------------------------------------------------------
(* benchmark_contract *)

(* the arguments benchmark_contract is applied to *)
Mnemonics == {Phrase, "not a mnemonic phrase"}
ContractIds == {"contract_id",
                "0x0000000000000000000000000000000000000000000000000000000000000000",
                "0xfe2c524ad8e088f33d232a45dbea43e792861640b71aa1814b30506bf8430ee5"}

(* decimal digits of a natural number, as {} formats it *)
RECURSIVE ToDecimal(_)
ToDecimal(n) ==
    LET digit == <<"0", "1", "2", "3", "4", "5", "6", "7", "8", "9">>[(n % 10) + 1]
    IN IF n < 10 THEN <<digit>> ELSE Append(ToDecimal(n \div 10), digit)

(* format!("m/44'/1179993420'/{}'/0/0", 0) *)
account_index == 0
path == <<"m/44'/1179993420'/">> \o ToDecimal(account_index) \o <<"'/0/0">>

(* WalletUnlocked::new_from_mnemonic_phrase_with_path: fails on a bad phrase *)
new_from_mnemonic_phrase_with_path(m, p) ==
    IF m = Phrase THEN {Ok("wallet")} ELSE {Err(e) : e \in LibErrors}

(* ContractId::from_str: 32 bytes in hexadecimal after 0x *)
ContractId_from_str(s) ==
    IF Len(s) = 66 THEN Ok(s) ELSE Err([msg |-> "Invalid encoded byte"])

(* Result::unwrap: TRUE when it panics *)
\* faulty variant: the parse error is ignored
unwrap_panics_never(r) == FALSE
unwrap_panics(r) == ~r.ok

(* main.rs:125-130: entry of benchmark_contract up to Provider::connect(url).await *)
ContractEnter ==
    /\ nodePc = "contract"
    /\ start_time' = Some(clock)
    /\ calls' = Append(calls, Call(url, "connect", [url |-> url]))
    /\ nodePc' = "contract connect"
    /\ UNCHANGED <<environ, mainPc, i, exit, mnemonic, contract_id, url, lbh, gas_price,
                   transactions, ret, clock, injected, log>>

(* main.rs:128-130: Provider::connect(url) returns *)
ContractConnectReturns ==
    /\ nodePc = "contract connect"
    /\ \E d \in Delays, r0 \in {Ok("provider")} \cup {Err(e) : e \in LibErrors} :
         LET r == map_err(r0, "ProviderConnectionError") IN
         /\ clock' = clock + d
         /\ injected' = injected + d
         /\ calls' = Answered(calls, r0)
         /\ IF Try(r)
            THEN /\ ret' = Some(r)
                 /\ nodePc' = "returned"
            ELSE /\ nodePc' = "contract wallet"
                 /\ ret' = ret
    /\ UNCHANGED <<environ, mainPc, i, exit, mnemonic, contract_id, url, start_time,
                   lbh, gas_price, transactions, log>>

(* main.rs:133-139: the derivation path and the wallet *)
DeriveWallet ==
    /\ nodePc = "contract wallet"
    /\ \E r0 \in new_from_mnemonic_phrase_with_path(mnemonic, path) :
         LET r == map_err(r0, "WalletCreationError") IN
         /\ calls' = Answered(Append(calls, Call(url, "new_from_mnemonic_phrase_with_path",
                                                 [mnemonic |-> mnemonic, path |-> path])), r0)
         /\ IF Try(r)
            THEN /\ ret' = Some(r)
                 /\ nodePc' = "returned"
            ELSE /\ nodePc' = "contract id"
                 /\ ret' = ret
    /\ UNCHANGED <<environ, mainPc, i, exit, mnemonic, contract_id, url, start_time,
                   lbh, gas_price, transactions, clock, injected, log>>

(* main.rs:142-143: ContractId::from_str(contract_id).unwrap() and
   SparkMarketContract::new(.., wallet) up to its await *)
ParseContractId ==
    /\ nodePc = "contract id"
    /\ LET r == ContractId_from_str(contract_id)
           parsed == Answered(Append(calls, Call(url, "ContractId::from_str",
                                                 [s |-> contract_id])), r)
       IN IF unwrap_panics(r)
          THEN /\ exit' = "panic"
               /\ nodePc' = "aborted"
               /\ calls' = parsed
          ELSE /\ calls' = Append(parsed, Call(url, "SparkMarketContract::new",
                                               [s |-> contract_id]))
               /\ nodePc' = "contract new"
               /\ exit' = exit
    /\ UNCHANGED <<environ, mainPc, i, mnemonic, contract_id, url, start_time, lbh,
                   gas_price, transactions, ret, clock, injected, log>>

(* main.rs:142-147: SparkMarketContract::new returns; market.matcher_fee() is called *)
MarketNewReturns ==
    /\ nodePc = "contract new"
    /\ \E d \in Delays :
         /\ clock' = clock + d
         /\ injected' = injected + d
    /\ calls' = Append(Answered(calls, Ok("market")), Call(url, "matcher_fee", NoArgs))
    /\ nodePc' = "contract matcher_fee"
    /\ UNCHANGED <<environ, mainPc, i, exit, mnemonic, contract_id, url, start_time,
                   lbh, gas_price, transactions, ret, log>>

(* main.rs:145-150: matcher_fee() returns *)
MatcherFeeReturns ==
    /\ nodePc = "contract matcher_fee"
    /\ \E d \in Delays, r0 \in {Ok("fee")} \cup {Err(e) : e \in LibErrors} :
         LET r == map_err(r0, "ContractInteractionError") IN
         /\ clock' = clock + d
         /\ injected' = injected + d
         /\ calls' = Answered(calls, r0)
         /\ ret' = IF Try(r) THEN Some(r) ELSE Some(Ok(elapsed(start_time.v, clock + d)))
    /\ nodePc' = "returned"
    /\ UNCHANGED <<environ, mainPc, i, exit, mnemonic, contract_id, url, start_time,
                   lbh, gas_price, transactions, log>>

(* benchmark_contract applied to every argument of the bounded sets *)
InitContract ==
    /\ environ = "Valid"
    /\ mainPc = "none"
    /\ i = 0
    /\ exit = "running"
    /\ mnemonic \in Mnemonics
    /\ contract_id \in ContractIds
    /\ nodePc = "contract"
    /\ url \in {provider_urls[k] : k \in 1 .. Len(provider_urls)}
    /\ start_time = None
    /\ lbh = None
    /\ gas_price = None
    /\ transactions = None
    /\ ret = None
    /\ clock = 0
    /\ calls = <<>>
    /\ injected = 0
    /\ log = <<>>

NextContract ==
    \/ ContractEnter
    \/ ContractConnectReturns
    \/ DeriveWallet
    \/ ParseContractId
    \/ MarketNewReturns
    \/ MatcherFeeReturns

SpecContract == InitContract /\ [][NextContract]_vars

----------------------------------------------------------------------------

Init ==
    /\ environ \in EnvStates
    /\ mainPc = "start"
    /\ i = 0
    /\ exit = "running"
    /\ mnemonic = ""
    /\ contract_id = ""
    /\ nodePc = "idle"
    /\ url = ""
    /\ start_time = None
    /\ lbh = None
    /\ gas_price = None
    /\ transactions = None
    /\ ret = None
    /\ clock = 0
    /\ calls = <<>>
    /\ injected = 0
    /\ log = <<>>

Next ==
    \/ Startup
    \/ ReadMnemonic
    \/ CallBenchmarkNode
    \/ ConnectReturns
    \/ BlockHeightReturns
    \/ GasPriceReturns
    \/ TransactionsReturn
    \/ MatchOutcome
    \/ MainReturn

Spec == Init /\ [][Next]_vars


(* the same under the scheduling of the runtime: main is the only task, it is
   resumed whenever the call it awaits has returned, and every call returns *)
FairSpec == Spec /\ WF_vars(Next)

----------------------------------------------------------------------------
(* Properties of main and benchmark_node *)

NodeSteps == <<"connect", "latest_block_height", "latest_gas_price", "get_transactions">>
StepOf(op) == CHOOSE k \in 1 .. Len(NodeSteps) : NodeSteps[k] = op

IsMarker(l) == l.text \in {"Connecting to node ", "Node Request: Response Time: ",
                           "Node Request: Error: "}
IsOutcome(l) == l.text \in {"Node Request: Response Time: ", "Node Request: Error: "}
Markers == SelectSeq(log, IsMarker)
Outcomes == SelectSeq(log, IsOutcome)

(* MNEMONIC could be read: std::env::var returned its value *)
MnemonicRead == mainPc \notin {"start", "env"} /\ environ = "Valid"

(* C1: once MNEMONIC has been read, the log shows benchmark_node entered once per
   endpoint, in the order of the list, each entry followed by exactly one outcome
   line (response time or error) before the next entry; when main returns every
   endpoint has been entered and has its outcome. *)
C1_DriverLoop ==
    MnemonicRead =>
        /\ Len(Markers) <= 2 * Len(provider_urls)
        /\ \A k \in 1 .. Len(Markers) :
             IF k % 2 = 1
             THEN /\ Markers[k].text = "Connecting to node "
                  /\ Markers[k].arg = provider_urls[(k + 1) \div 2]
             ELSE IsOutcome(Markers[k])
        /\ mainPc = "loop" => Len(Markers) = 2 * (i - 1)
        /\ mainPc = "await" => Len(Markers) = 2 * i - 1
        /\ mainPc = "exited" => /\ exit = "ok"
                                /\ Len(Markers) = 2 * Len(provider_urls)
        /\ Len(SelectSeq(calls, LAMBDA c : c.op = "connect")) = (Len(Markers) + 1) \div 2

C1_Witness ==
    /\ exit = "ok"
    /\ Len(Outcomes) = 2
    /\ Outcomes[1].text = "Node Request: Error: "
    /\ Outcomes[2].text = "Node Request: Response Time: "

(* C2: a call that failed is the last call of its invocation: the call that follows
   it, if any, is the connect of another endpoint, and no later call goes to the
   endpoint of the failed call. *)
C2_ShortCircuit ==
    \A k \in 1 .. Len(calls) :
        calls[k].res = "err" =>
            /\ k < Len(calls) => calls[k + 1].op = "connect"
            /\ \A j \in (k + 1) .. Len(calls) : calls[j].url # calls[k].url

C2_Witness ==
    /\ Len(calls) = 3
    /\ calls[2].op = "latest_block_height"
    /\ calls[2].res = "err"
    /\ calls[3].op = "connect"

VariantOf(op) ==
    CASE op = "connect" -> "ProviderConnectionError"
      [] op = "latest_block_height" -> "BlockHeightFetchError"
      [] op = "latest_gas_price" -> "GasPriceFetchError"
      [] op = "get_transactions" -> "TransactionFetchError"

(* C3: when benchmark_node has returned, an Err names the variant of the step whose
   call failed and carries the message of that call's error; the result is Ok only
   when the last four calls are the four steps, all answered without error. *)
C3_ErrorIdentifiesStep ==
    (mainPc = "await" /\ nodePc = "returned") =>
        LET n == Len(calls) IN
        IF ret.v.ok
        THEN /\ n >= 4
             /\ \A k \in 1 .. 4 : /\ calls[n - 4 + k].op = NodeSteps[k]
                                  /\ calls[n - 4 + k].res = "ok"
                                  /\ calls[n - 4 + k].url = url
        ELSE /\ calls[n].res = "err"
             /\ calls[n].url = url
             /\ ret.v.e.variant = VariantOf(calls[n].op)
             /\ ret.v.e.msg = calls[n].err.v.msg
             /\ ret.v.e.variant \notin {"WalletCreationError", "ContractInteractionError"}

C3_Witness ==
    /\ mainPc = "await"
    /\ nodePc = "returned"
    /\ ~ret.v.ok
    /\ ret.v.e = [variant |-> "GasPriceFetchError", msg |-> "timeout"]

(* C4: once MNEMONIC has been read, main eventually returns Ok(()), whatever the
   benchmarks returned. *)
C4_Terminates == MnemonicRead ~> (exit = "ok")

C4_Witness ==
    /\ exit = "ok"
    /\ Len(Outcomes) = 2
    /\ Outcomes[1].text = "Node Request: Error: "
    /\ Outcomes[2].text = "Node Request: Error: "

(* C5: when MNEMONIC is absent from the environment, no collaborator is ever
   called, nothing is logged, the loop is never entered and main never returns
   Ok(()). *)
C5_AbsentMnemonicAborts ==
    environ = "NotPresent" =>
        /\ Len(calls) = 0
        /\ Len(log) = 0
        /\ mainPc \in {"start", "env", "exited"}
        /\ exit # "ok"
        /\ mainPc = "exited" => exit = "panic"

C5_Witness ==
    /\ environ = "NotPresent"
    /\ mainPc = "exited"
    /\ exit = "panic"

(* C6: every get_transactions call, whatever the endpoint and the block height and
   gas price returned before it, carries cursor = None, results = 10,
   direction = Backward. *)
C6_PaginationRequest ==
    \A k \in 1 .. Len(calls) :
        calls[k].op = "get_transactions" =>
            /\ calls[k].args.cursor = [some |-> FALSE]
            /\ calls[k].args.results = 10
            /\ calls[k].args.direction = "Backward"

C6_Witness ==
    /\ lbh = [some |-> TRUE, v |-> 12346]
    /\ gas_price = [some |-> TRUE, v |-> 2]
    /\ Len(calls) = 8
    /\ calls[4].op = "get_transactions"
    /\ calls[8].op = "get_transactions"
    /\ calls[4].url # calls[8].url

(* C7: when get_transactions has returned a page, benchmark_node returns
   Ok(elapsed) whatever the length of the page; the last line logged says that no
   transaction was found when the page is empty and gives the status of the first
   transaction otherwise. *)
C7_PageBranch ==
    (mainPc = "await" /\ Len(calls) > 0
       /\ calls[Len(calls)].op = "get_transactions" /\ calls[Len(calls)].res = "ok") =>
        /\ nodePc = "returned"
        /\ transactions.some
        /\ ret = [some |-> TRUE, v |-> [ok |-> TRUE, v |-> clock - start_time.v]]
        /\ LET page == transactions.v
               last == log[Len(log)]
           IN IF Len(page) = 0
              THEN last.text = "No transactions found in the latest block."
              ELSE /\ last.text = "Latest transaction: "
                   /\ last.arg = page[1].status

C7_Witness ==
    /\ mainPc = "await"
    /\ nodePc = "returned"
    /\ transactions.some
    /\ Len(transactions.v) = 0
    /\ ret.v.ok

(* C8: a returned duration is not negative, is the clock at return minus the clock
   at the entry of this invocation, and is at least the sum of the delays of the
   four steps of this invocation. *)
C8_Duration ==
    (mainPc = "await" /\ nodePc = "returned" /\ ret.v.ok) =>
        LET entry == clock - injected IN
        /\ ret.v.v >= 0
        /\ ret.v.v = clock - entry
        /\ ret.v.v >= injected

C8_Witness ==
    /\ mainPc = "await"
    /\ nodePc = "returned"
    /\ ret.v.ok
    /\ i = 2
    /\ injected = 3
    /\ clock > 3

(* C9: the calls of an invocation are a prefix of connect, latest_block_height,
   latest_gas_price, get_transactions: a call other than connect follows the
   successful return of the step before it on the same endpoint, a connect follows
   the end of the previous invocation, no endpoint receives the same call twice,
   and at most one call is unanswered. *)
C9_SequentialCalls ==
    /\ Cardinality({k \in 1 .. Len(calls) : calls[k].res = "pending"}) <= 1
    /\ \A k \in 1 .. Len(calls) :
         /\ calls[k].op \in {NodeSteps[s] : s \in 1 .. Len(NodeSteps)}
         /\ IF calls[k].op = "connect"
            THEN k > 1 => /\ calls[k - 1].res # "pending"
                          /\ \/ calls[k - 1].res = "err"
                             \/ calls[k - 1].op = "get_transactions"
            ELSE /\ k > 1
                 /\ calls[k - 1].res = "ok"
                 /\ calls[k - 1].url = calls[k].url
                 /\ StepOf(calls[k].op) = StepOf(calls[k - 1].op) + 1
         /\ \A j \in 1 .. (k - 1) :
              ~(calls[j].url = calls[k].url /\ calls[j].op = calls[k].op)

C9_Witness ==
    /\ Len(calls) = 7
    /\ calls[7].op = "latest_gas_price"
    /\ calls[7].res = "pending"
    /\ calls[4].res = "ok"

----------------------------------------------------------------------------
(* Properties of benchmark_contract *)

ContractSteps == <<"connect", "new_from_mnemonic_phrase_with_path", "ContractId::from_str",
                   "SparkMarketContract::new", "matcher_fee">>

(* C10: benchmark_contract calls connect, the wallet derivation (with the path
   m/44'/1179993420'/0'/0/0), the parse of the contract identifier and matcher_fee
   in this order, each only after the step before it succeeded; a connect failure
   returns ProviderConnectionError and a wallet failure WalletCreationError, both
   before the identifier is parsed; a malformed identifier aborts the process with
   no value returned and matcher_fee not called; ContractInteractionError is
   returned only when the identifier parsed and matcher_fee failed. *)
C10_ContractSteps ==
    LET n == Len(calls) IN
    /\ n <= Len(ContractSteps)
    /\ \A k \in 1 .. n :
         /\ calls[k].op = ContractSteps[k]
         /\ k > 1 => calls[k - 1].res = "ok"
    /\ n >= 2 => calls[2].args.path = <<"m/44'/1179993420'/", "0", "'/0/0">>
    /\ (nodePc = "returned" /\ ~ret.v.ok) =>
         /\ calls[n].res = "err"
         /\ ret.v.e.msg = calls[n].err.v.msg
         /\ ret.v.e.variant = (CASE n = 1 -> "ProviderConnectionError"
                                 [] n = 2 -> "WalletCreationError"
                                 [] n = 5 -> "ContractInteractionError")
    /\ (nodePc = "returned" /\ ret.v.ok) => (n = 5 /\ calls[5].res = "ok")
    /\ (contract_id = "contract_id" /\ n >= 2 /\ calls[2].res = "ok"
          /\ nodePc # "contract id") =>
         /\ n = 3
         /\ calls[3].res = "err"
         /\ exit = "panic"
         /\ nodePc = "aborted"
         /\ ret = [some |-> FALSE]
    /\ exit = "panic" <=> (n >= 3 /\ calls[3].res = "err")

C10_Witness ==
    /\ contract_id = "contract_id"
    /\ exit = "panic"
    /\ Len(calls) = 3
    /\ calls[2].res = "ok"
    /\ ret = [some |-> FALSE]

====
